---- MODULE Spec2Model ----
(***************************************************************************)
(* Refresh-token lifecycle of the Tiny School Hub API backend.             *)
(*                                                                         *)
(* The model covers the auth handlers (Register, Login, Refresh, Logout),  *)
(* the refresh_tokens repository (Create, GetByTokenHash, Revoke,          *)
(* RevokeAllForUser, DeleteExpired) and RefreshToken.IsValid.  Requests    *)
(* are served concurrently, one handler instance per request.  Refresh     *)
(* takes one step per call that writes the refresh_tokens table, so that   *)
(* every interleaving of the writes of two requests, and a stop of the     *)
(* process between two writes, is a behaviour of the model.                *)
(***************************************************************************)
EXTENDS Integers, FiniteSets, Sequences, Bags, TLC

(***************************************************************************)
(* Bounds of the model.                                                    *)
(***************************************************************************)
\* The clock runs from 0 to MaxTime.
MaxTime == 1
\* Number of values drawn from the entropy source (refresh secrets / ids).
MaxFresh == 3
\* Users are 1..NumUsers; user 1 is registered initially.
NumUsers == 2
\* Refresh requests that can be in flight at the same time.
MaxInFlight == 2

\* cfg.JWT.RefreshExpiry in clock ticks, rounded down: a row expires with the
\* first tick after the one it was created in.
RefreshExpiry == 0

\* Byte values are 0..NumByteVals-1 (256 in the program).
NumByteVals == 3
\* rand.Read fills a salt of SaltLen bytes (saltLength = 16 in the program).
SaltLen == 1
\* Length of the strings tried as a stored password_hash that HashPassword
\* did not write.
MaxEncodedLen == 3

\* Client addresses are 1..NumIPs; a forwarded-for chain has up to MaxChain.
NumIPs == 2
MaxChain == 2
\* NewRateLimiter is called with 1..MaxRate requests per second.
MaxRate == 2
\* The limiter's clock runs from 0 to MaxClock, in ticks of 1/(TickPerToken *
\* rate) seconds: a limiter gains one token in TickPerToken ticks.
MaxClock == 3
TickPerToken == 2
\* rate.Limiter objects allocated, requests inside the middleware, and runs
\* of the cleanup loop.
MaxLimiters == 2
MaxConns == 2
MaxSweeps == 1
SubSec == 2
MaxWall == 5
MaxExpiry == 3
NumKeys == 2
MaxHeaderLen == 3
MaxEnvLen == 2

Users == 1..NumUsers
\* Secrets a client can present: the drawn ones, and 0, which was never drawn.
Secrets == 0..MaxFresh

\* SQL NULL of the revoked_at column / a nil *time.Time.
NULL == -1

VARIABLES
    now,        \* the clock (time.Now(), NOW())
    users,      \* the users table: ids of the registered users
    store,      \* the refresh_tokens table: a set of rows
    fresh,      \* number of values drawn from crypto/rand so far
    req,        \* the bag of Refresh requests in flight
    out,        \* the response just written, with the history of the request
                \*   that wrote it; NoOut once it has been sent
    parent,     \* per secret: the secret presented to the Refresh request
                \*   that generated it, 0 for Login/Register (history)
    owner,      \* per secret: the user it was generated for (history)
    killed,     \* secrets whose row was active when RevokeAllForUser was
                \*   called for their owner (history, by RevokeAllSessions)
    \* --- the rate limiter (internal/http/middleware) ---
    clock,      \* time.Now() as the limiters read it, in refill ticks
    rate,       \* RateLimiter.rate (requests per second); 0: not built
    visitors,   \* RateLimiter.visitors: key -> index of its *rate.Limiter
    limiters,   \* the rate.Limiter objects allocated so far, in order
    conns,      \* requests inside the RateLimit middleware
    served,     \* the request that has just left the middleware (history)
    sweeps,     \* number of times cleanupVisitors replaced the map
    seen,       \* keys looked up since the map was last replaced (history)
    mu,         \* RateLimiter.mu: who holds it, and for which key
    callers,    \* calls of getVisitor that have not returned
    \* --- access tokens (internal/core/auth) ---
    wall,       \* time.Now() in fractions of a second
    jwt,        \* the token string at hand, as its decoded parts
    verdict,    \* what ValidateAccessToken returned for it
    authed,     \* what AuthMiddleware did with the request it got last
    \* --- passwords (internal/core/auth) ---
    cred,       \* the string HashPassword returned, with its password
    verified    \* what VerifyPassword returned last

authVars == <<now, users, store, fresh, req, out, parent, owner, killed>>
limiterVars == <<clock, rate, visitors, limiters, conns, served, sweeps, seen>>
lockVars == <<mu, callers>>
tokenVars == <<wall, jwt, verdict, authed>>
passwordVars == <<cred, verified>>

\* What the auth handlers leave alone, what the limiter leaves alone, ...
notAuthVars == <<limiterVars, lockVars, tokenVars, passwordVars>>
notLimiterVars == <<authVars, lockVars, tokenVars, passwordVars>>
notRegistryVars == <<authVars, tokenVars, passwordVars>>
notTokenVars == <<authVars, limiterVars, lockVars, passwordVars>>
notPasswordVars == <<authVars, limiterVars, lockVars, tokenVars>>

vars == <<authVars, limiterVars, lockVars, tokenVars, passwordVars>>

NoResp == [status |-> 0, code |-> "", message |-> "", refresh_token |-> 0]

\* A Refresh request in flight: it has read its row and found it valid.
\*   pc       position in AuthHandler.Refresh
\*   arg      refresh_token of the request body
\*   usr      storedToken.UserID, the user found by userRepo.GetByID
\*   revoked  the handler's tokenRepo.Revoke changed the table (history)
InFlight(pc, arg, usr, revoked) ==
    [pc |-> pc, arg |-> arg, usr |-> usr, revoked |-> revoked]

\* No response waiting to be sent.
\*   handler  the handler that finished ("Crash": it never finished)
\*   arg      refresh_token of the request body
\*   resp     the response
\*   revoked, created   the persistence writes of the request that changed
\*            the table
\*   cause    the condition that rejected the request
\*   again    a Refresh request presenting the same secret had been
\*            answered 200 before
\*   exit     the check of the handler at which the request was rejected:
\*            all that the handler itself tells apart
NoOut == [handler |-> "", arg |-> 0, resp |-> NoResp, revoked |-> FALSE,
          created |-> FALSE, cause |-> "", again |-> FALSE, exit |-> ""]

(***************************************************************************)
(* internal/core/auth                                                      *)
(***************************************************************************)
\* sha256 + base64: injective on the secrets, and no digest is a secret.
HashRefreshToken(token) == 0 - (token + 1)

(***************************************************************************)
(* internal/core/auth: HashPassword / VerifyPassword                       *)
(*                                                                         *)
(* A string is a sequence of characters.  Character 0 is ':', characters   *)
(* 1..NumByteVals are the alphabet of base64.RawStdEncoding (which has no  *)
(* ':'), NumByteVals+1 is a character outside the alphabet.  The encoding  *)
(* is modelled character per byte: byte b is written as character b+1.     *)
(***************************************************************************)
Bytes == 0..(NumByteVals - 1)
\* As many passwords as argon2 keys: the domain on which the model's key
\* derivation has no collision, as argon2id is taken to have none.
Passwords == Bytes
\* The byte strings rand.Read can fill the salt with.
Salts == [1..SaltLen -> Bytes]
\* The strings a password_hash column can hold.
EncodedStrings == UNION {[1..n -> 0..(NumByteVals + 1)] : n \in 0..MaxEncodedLen}

ColonChar == 0

RECURSIVE SumSeq(_)
SumSeq(bs) == IF bs = <<>> THEN 0 ELSE Head(bs) + SumSeq(Tail(bs))

\* argon2.IDKey(password, salt, ...): a key of argon2KeyLen bytes (one in the
\* model) that, for a given salt, differs for different passwords.
Argon2IDKey(password, salt) == <<(password + SumSeq(salt)) % NumByteVals>>

\* An encoding whose alphabet holds the separator: what C20 rules out.
Base64EncodeColon(bs) == [i \in 1..Len(bs) |-> bs[i]]

\* base64.RawStdEncoding.EncodeToString
Base64Encode(bs) == [i \in 1..Len(bs) |-> bs[i] + 1]

\* base64.RawStdEncoding.DecodeString: an error on a character that is not of
\* the alphabet.
Base64Decode(cs) ==
    IF \A i \in 1..Len(cs) : cs[i] \in 1..NumByteVals
       THEN [err |-> FALSE, bytes |-> [i \in 1..Len(cs) |-> cs[i] - 1]]
       ELSE [err |-> TRUE, bytes |-> <<>>]

\* HashPassword(password) when rand.Read filled the salt with salt:
\* base64(salt) ":" base64(hash).
HashPassword(password, salt) ==
    Base64Encode(salt) \o <<ColonChar>> \o Base64Encode(Argon2IDKey(password, salt))

\* The index (from 1) of the first ':' of encoded, 0 when there is none.
ColonIdx(encoded) ==
    IF \E i \in 1..Len(encoded) : encoded[i] = ColonChar
       THEN CHOOSE i \in 1..Len(encoded) :
                /\ encoded[i] = ColonChar
                /\ \A j \in 1..(i - 1) : encoded[j] # ColonChar
       ELSE 0

\* VerifyPassword(password, encoded): the pair (valid, err != nil).
VerifyPassword(password, encoded) ==
    LET colonIdx == ColonIdx(encoded)
        salt == Base64Decode(SubSeq(encoded, 1, colonIdx - 1))
        hash == Base64Decode(SubSeq(encoded, colonIdx + 1, Len(encoded)))
        computedHash == Argon2IDKey(password, salt.bytes)
    IN  IF colonIdx = 0 THEN [valid |-> FALSE, err |-> TRUE]
        ELSE IF salt.err THEN [valid |-> FALSE, err |-> TRUE]
        ELSE IF hash.err THEN [valid |-> FALSE, err |-> TRUE]
        ELSE IF Len(computedHash) # Len(hash.bytes)
                THEN [valid |-> FALSE, err |-> FALSE]
        ELSE IF \E i \in 1..Len(computedHash) : computedHash[i] # hash.bytes[i]
                THEN [valid |-> FALSE, err |-> FALSE]
        ELSE [valid |-> TRUE, err |-> FALSE]

(***************************************************************************)
(* internal/core/domain: RefreshToken                                      *)
(***************************************************************************)
IsRevoked(rt) == rt.RevokedAt # NULL

IsExpired(rt, t) == t > rt.ExpiresAt

IsValid(rt, t) == ~IsRevoked(rt) /\ ~IsExpired(rt, t)

\* NewRefreshToken with the secret itself in the TokenHash column: what C9
\* rules out.
NewRefreshTokenPlain(id, userID, plaintext, t) ==
    [ID |-> id, UserID |-> userID, TokenHash |-> plaintext,
     ExpiresAt |-> t + RefreshExpiry, RevokedAt |-> NULL, CreatedAt |-> t]

\* The domain.RefreshToken the handlers build before tokenRepo.Create.
NewRefreshToken(id, userID, plaintext, t) ==
    [ID |-> id, UserID |-> userID, TokenHash |-> HashRefreshToken(plaintext),
     ExpiresAt |-> t + RefreshExpiry, RevokedAt |-> NULL, CreatedAt |-> t]

(***************************************************************************)
(* internal/repository/postgres: RefreshTokenRepo                          *)
(***************************************************************************)
\* INSERT INTO refresh_tokens ...
RepoCreate(rows, token) == rows \cup {token}

\* SELECT ... WHERE token_hash = $1
RepoGetByTokenHash(rows, tokenHash) == {t \in rows : t.TokenHash = tokenHash}

\* Revoke writing its timestamp to expires_at: an UPDATE that C8 rules out.
RepoRevokeWrongColumn(rows, tokenHash, revokedAt) ==
    {IF t.TokenHash = tokenHash THEN [t EXCEPT !.ExpiresAt = revokedAt] ELSE t
       : t \in rows}

\* UPDATE refresh_tokens SET revoked_at = $1 WHERE token_hash = $2
RepoRevoke(rows, tokenHash, revokedAt) ==
    {IF t.TokenHash = tokenHash THEN [t EXCEPT !.RevokedAt = revokedAt] ELSE t
       : t \in rows}

\* RevokeAllForUser without "AND revoked_at IS NULL": a second call then
\* rewrites the timestamps, which the idempotence of C7 rules out.
RepoRevokeAllUnfiltered(rows, userID, revokedAt) ==
    {IF t.UserID = userID
        THEN [t EXCEPT !.RevokedAt = revokedAt] ELSE t
       : t \in rows}

\* UPDATE ... SET revoked_at = $1 WHERE user_id = $2 AND revoked_at IS NULL
RepoRevokeAllForUser(rows, userID, revokedAt) ==
    {IF t.UserID = userID /\ t.RevokedAt = NULL
        THEN [t EXCEPT !.RevokedAt = revokedAt] ELSE t
       : t \in rows}

\* A delete of every row that is not valid, the revoked ones included: what
\* C27 rules out.
RepoDeleteInvalid(rows, t) == {x \in rows : IsValid(x, t)}

\* DELETE FROM refresh_tokens WHERE expires_at < NOW()
RepoDeleteExpired(rows, t) == {x \in rows : ~(x.ExpiresAt < t)}

(***************************************************************************)
(* internal/http/handlers: responses                                       *)
(***************************************************************************)
AuthResponse(status, refreshToken) ==
    [status |-> status, code |-> "", message |-> "",
     refresh_token |-> refreshToken]

ErrorResponse(code, message, status) ==
    [status |-> status, code |-> code, message |-> message, refresh_token |-> 0]

\* Refresh: GetByTokenHash returned an error.
RespLookupFailed ==
    ErrorResponse("invalid_token", "Invalid or expired refresh token", 401)

\* A response for !storedToken.IsValid() with a message of its own: what C10
\* rules out.
RespNotValidDistinct ==
    ErrorResponse("invalid_token", "Refresh token revoked or expired", 401)

\* Refresh: !storedToken.IsValid().
RespNotValid ==
    ErrorResponse("invalid_token", "Invalid or expired refresh token", 401)

\* Refresh: userRepo.GetByID returned an error.
RespInvalidUser == ErrorResponse("invalid_token", "Invalid user", 401)

\* GenerateAccessToken / GenerateRefreshToken returned an error.
RespTokenFailure ==
    ErrorResponse("internal_error", "Failed to generate tokens", 500)

\* A Login response for an email that no user has (a variant used to see
\* that C11 depends on the two responses being one).
RespNoSuchUserDistinct ==
    ErrorResponse("invalid_credentials", "Unknown email", 401)

\* Login: userRepo.GetByEmail returned an error.
RespNoSuchUser ==
    ErrorResponse("invalid_credentials", "Invalid email or password", 401)

\* Login: VerifyPassword returned an error or false.
RespBadPassword ==
    ErrorResponse("invalid_credentials", "Invalid email or password", 401)

RespNoContent == [status |-> 204, code |-> "", message |-> "",
                  refresh_token |-> 0]

\* Every response is sent before the next step is taken: out is history that
\* no handler reads, so this hides no behaviour of the tables.
Quiet == out = NoOut

Sent ==
    /\ out # NoOut
    /\ out' = NoOut
    /\ UNCHANGED <<now, users, store, fresh, req, parent, owner, killed>>
    /\ UNCHANGED notAuthVars

\* The auth handlers before the first request.
InitAuth ==
    /\ now = 0
    /\ users = {1}
    /\ store = {}
    /\ fresh = 0
    /\ req = EmptyBag
    /\ out = NoOut
    /\ parent = [s \in Secrets |-> 0]
    /\ owner = [s \in Secrets |-> 0]
    /\ killed = {}

\* A map without keys.
EmptyMap == [k \in {} |-> 0]

\* No request has left the middleware.  Of the request that has: its key,
\* the response status, whether the next handler was called, what Allow
\* returned, and the history of its limiter before the Allow call (see
\* NewLimiter; nth is the position of the call among the calls made at the
\* instant the limiter was created, peer tells that another request held
\* the same limiter during the call).
NoServed ==
    [key |-> <<>>, status |-> 0, handled |-> FALSE, ok |-> FALSE,
     young |-> FALSE, nth |-> 0, denied |-> FALSE, waited |-> 0,
     peer |-> FALSE]

\* The rate limiter while it is not looked at.
\* rl.mu is free.
NoHolder == [holder |-> "", key |-> <<>>]

\* Nobody is in getVisitor or in the loop body of cleanupVisitors.
IdleLock ==
    /\ mu = NoHolder
    /\ callers = EmptyBag

IdleLimiter ==
    /\ IdleLock
    /\ clock = 0
    /\ rate = 0
    /\ visitors = EmptyMap
    /\ limiters = <<>>
    /\ conns = EmptyBag
    /\ served = NoServed
    /\ sweeps = 0
    /\ seen = {}

\* No token string; no answer of ValidateAccessToken.  A token string is its
\* header's alg, the key its signature was made with, its claims as they
\* are written in it, and (history) the call that made it.
NoToken == [alg |-> "", key |-> 0, claims |-> <<>>, made |-> <<>>]
NoVerdict == [err |-> "", claims |-> <<>>, secret |-> 0]

\* AuthMiddleware has answered no request.  Of the request it has: the
\* Authorization header, the configured secret, the response status (200:
\* what the next handler writes), whether the next handler was called, and
\* the values put in the request context.
NoCtx == [user_id |-> <<>>, user_email |-> <<>>, user_role |-> <<>>]
NoAuthed ==
    [header |-> <<>>, secret |-> 0, status |-> 0, handled |-> FALSE,
     ctx |-> NoCtx]

\* No access token is looked at.
IdleToken ==
    /\ wall = 0
    /\ jwt = NoToken
    /\ verdict = NoVerdict
    /\ authed = NoAuthed

\* No stored credential; no answer of VerifyPassword.  hashed tells that the
\* credential is the result of HashPassword(password), prior that the call
\* before this one on the same credential returned true.
NoCred == [password |-> 0, encoded |-> <<>>, hashed |-> FALSE]
NoVerified ==
    [password |-> 0, valid |-> FALSE, err |-> FALSE, done |-> FALSE,
     prior |-> FALSE]

\* No password is looked at.
IdlePassword ==
    /\ cred = NoCred
    /\ verified = NoVerified

Init == InitAuth /\ IdleLimiter /\ IdleToken /\ IdlePassword

\* The clock advances.
Tick ==
    /\ Quiet
    /\ now < MaxTime
    /\ now' = now + 1
    /\ UNCHANGED <<users, store, fresh, req, out, parent, owner, killed>>
    /\ UNCHANGED notAuthVars

(***************************************************************************)
(* AuthHandler.Register / AuthHandler.Login                                *)
(* Neither reads the refresh_tokens table and the only write is the final  *)
(* tokenRepo.Create, so each is one step.                                  *)
(***************************************************************************)
\* tokenRepo.Create; its error is logged and dropped.
Created(rows, token, dbOk) == IF dbOk THEN RepoCreate(rows, token) ELSE rows

\* The response of a handler that asked for tokens: 500 when
\* GenerateRefreshToken failed, else status with the plaintext secret (the
\* n-th draw of the entropy source), whatever tokenRepo.Create returned.
Issued(start, status, entropyOk, dbOk) ==
    IF entropyOk
       THEN [start EXCEPT !.created = dbOk,
                          !.resp = AuthResponse(status, fresh + 1)]
       ELSE [start EXCEPT !.resp = RespTokenFailure,
                          !.cause = "InternalError"]

\* What issuing a session for user u, to a request that presented secret old
\* (0: none), does to the table, the entropy source and the history.
IssueSession(u, old, entropyOk, dbOk) ==
    /\ entropyOk => fresh < MaxFresh
    /\ fresh' = IF entropyOk THEN fresh + 1 ELSE fresh
    /\ store' = IF entropyOk
                   THEN Created(store,
                                NewRefreshToken(fresh + 1, u, fresh + 1, now),
                                dbOk)
                   ELSE store
    /\ parent' = IF entropyOk THEN [parent EXCEPT ![fresh + 1] = old]
                              ELSE parent
    /\ owner' = IF entropyOk THEN [owner EXCEPT ![fresh + 1] = u] ELSE owner

\* Register user u: the user row is inserted, the tokens are generated, the
\* refresh-token row is stored, 201.
Register(u, entropyOk, dbOk) ==
    /\ Quiet
    /\ u \in Users \ users
    /\ users' = users \cup {u}
    /\ IssueSession(u, 0, entropyOk, dbOk)
    /\ out' = Issued([NoOut EXCEPT !.handler = "Register"], 201, entropyOk, dbOk)
    /\ UNCHANGED <<now, req, killed>>
    /\ UNCHANGED notAuthVars

\* Login with the credentials of registered user u, 200.
Login(u, entropyOk, dbOk) ==
    /\ Quiet
    /\ u \in users
    /\ IssueSession(u, 0, entropyOk, dbOk)
    /\ out' = Issued([NoOut EXCEPT !.handler = "Login"], 200, entropyOk, dbOk)
    /\ UNCHANGED <<now, users, req, killed>>
    /\ UNCHANGED notAuthVars

\* Login for the email of u with password p, where the users row (if there
\* is one) holds password_hash c, and the password verifies.
LoginVerified(u, p, c, entropyOk, dbOk) ==
    /\ VerifyPassword(p, c) = [valid |-> TRUE, err |-> FALSE]
    /\ Login(u, entropyOk, dbOk)

\* Login that ends at GetByEmail (no row for the email of u, or the query
\* failed) or at VerifyPassword (an error, or false).
LoginRejected(u, p, c, dbOk) ==
    /\ Quiet
    /\ LET start == [NoOut EXCEPT !.handler = "Login"]
           v == VerifyPassword(p, c)
       IN  IF ~dbOk \/ u \notin users
              THEN out' = [start EXCEPT !.resp = RespNoSuchUser,
                                        !.cause = IF dbOk THEN "NoUser"
                                                  ELSE "InternalError"]
              ELSE /\ v.err \/ ~v.valid
                   /\ out' = [start EXCEPT !.resp = RespBadPassword,
                                            !.cause = IF v.err THEN "BadCredential"
                                                      ELSE "WrongPassword"]
    /\ UNCHANGED <<now, users, store, fresh, req, parent, owner, killed>>
    /\ UNCHANGED notAuthVars

(***************************************************************************)
(* AuthHandler.Refresh                                                     *)
(***************************************************************************)
\* A Refresh request presenting secret s was answered 200 (every secret that
\* is generated for a Refresh request is returned to it).
Rotated(s) == \E n \in 1..fresh : parent[n] = s

\* The history a finished (or stopped) Refresh request leaves in out.
Finished(q) ==
    [NoOut EXCEPT !.handler = "Refresh", !.arg = q.arg, !.revoked = q.revoked]

\* The bag of requests with q replaced by the requests of set qs.
Moved(q, qs) == (req (-) SetToBag({q})) (+) SetToBag(qs)

\* A Refresh that revokes the presented row before it looks at it: what C29
\* rules out.
RefreshLookupRevokeFirst(s, dbOk, userOk) ==
    /\ Quiet
    /\ BagCardinality(req) < MaxInFlight
    /\ s \in 0..fresh
    /\ LET found == RepoGetByTokenHash(store, HashRefreshToken(s))
           start == [NoOut EXCEPT !.handler = "Refresh", !.arg = s]
       IN  IF ~dbOk \/ found = {}
              THEN /\ out' = [start EXCEPT
                                !.resp = RespLookupFailed,
                                !.exit = "GetByTokenHash",
                                !.cause = IF dbOk THEN "NotFound"
                                          ELSE "InternalError"]
                   /\ req' = req
              ELSE \E storedToken \in found :
                     IF ~IsValid(storedToken, now)
                        THEN /\ out' = [start EXCEPT
                                          !.resp = RespNotValid,
                                          !.exit = "IsValid",
                                          !.cause = IF IsRevoked(storedToken)
                                                    THEN "Revoked"
                                                    ELSE "Expired"]
                             /\ req' = req
                     ELSE IF ~(userOk /\ storedToken.UserID \in users)
                        THEN /\ out' = [start EXCEPT !.resp = RespInvalidUser,
                                                     !.exit = "GetByID",
                                                     !.cause = "NoUser"]
                             /\ req' = req
                     ELSE /\ req' = req (+) SetToBag({InFlight(
                                       "refresh_revoke", s,
                                       storedToken.UserID, FALSE)})
                          /\ out' = out
    /\ store' = IF dbOk THEN RepoRevoke(store, HashRefreshToken(s), now)
                        ELSE store
    /\ UNCHANGED <<now, users, fresh, parent, owner, killed>>
    /\ UNCHANGED notAuthVars

\* tokenRepo.GetByTokenHash(HashRefreshToken(req.RefreshToken)), then
\* storedToken.IsValid() and userRepo.GetByID(storedToken.UserID).  The two
\* checks read the row as it was returned and write nothing, so they are taken
\* in the step of the lookup; the request then holds no more than that the
\* row was valid when it was read.
RefreshLookup(s, dbOk, userOk) ==
    /\ Quiet
    /\ BagCardinality(req) < MaxInFlight
    /\ s \in 0..fresh
    /\ LET found == RepoGetByTokenHash(store, HashRefreshToken(s))
           start == [NoOut EXCEPT !.handler = "Refresh", !.arg = s]
       IN  IF ~dbOk \/ found = {}
              THEN /\ out' = [start EXCEPT
                                !.resp = RespLookupFailed,
                                !.exit = "GetByTokenHash",
                                !.cause = IF dbOk THEN "NotFound"
                                          ELSE "InternalError"]
                   /\ req' = req
              ELSE \E storedToken \in found :
                     IF ~IsValid(storedToken, now)
                        THEN /\ out' = [start EXCEPT
                                          !.resp = RespNotValid,
                                          !.exit = "IsValid",
                                          !.cause = IF IsRevoked(storedToken)
                                                    THEN "Revoked"
                                                    ELSE "Expired"]
                             /\ req' = req
                     ELSE IF ~(userOk /\ storedToken.UserID \in users)
                        THEN /\ out' = [start EXCEPT !.resp = RespInvalidUser,
                                                     !.exit = "GetByID",
                                                     !.cause = "NoUser"]
                             /\ req' = req
                     ELSE /\ req' = req (+) SetToBag({InFlight(
                                       "refresh_revoke", s,
                                       storedToken.UserID, FALSE)})
                          /\ out' = out
    /\ UNCHANGED <<now, users, store, fresh, parent, owner, killed>>
    /\ UNCHANGED notAuthVars

\* tokenRepo.Revoke(tokenHash, now); its error is logged and dropped.
RefreshRevoke(q, dbOk) ==
    /\ Quiet
    /\ q \in BagToSet(req)
    /\ q.pc = "refresh_revoke"
    /\ store' = IF dbOk THEN RepoRevoke(store, HashRefreshToken(q.arg), now)
                        ELSE store
    /\ req' = Moved(q, {InFlight("refresh_create", q.arg, q.usr,
                                 store' # store)})
    /\ UNCHANGED <<now, users, fresh, out, parent, owner, killed>>
    /\ UNCHANGED notAuthVars

\* GenerateAccessToken, GenerateRefreshToken, tokenRepo.Create (error logged
\* and dropped), writeJSON(200).
RefreshCreate(q, entropyOk, dbOk) ==
    /\ Quiet
    /\ q \in BagToSet(req)
    /\ q.pc = "refresh_create"
    /\ IssueSession(q.usr, q.arg, entropyOk, dbOk)
    /\ out' = Issued([Finished(q) EXCEPT !.again = Rotated(q.arg)],
                     200, entropyOk, dbOk)
    /\ req' = Moved(q, {})
    /\ UNCHANGED <<now, users, killed>>
    /\ UNCHANGED notAuthVars

(***************************************************************************)
(* AuthHandler.Logout                                                      *)
(***************************************************************************)
\* tokenRepo.Revoke (error logged and dropped), then 204.
Logout(s, dbOk) ==
    /\ Quiet
    /\ s \in 0..fresh
    /\ store' = IF dbOk THEN RepoRevoke(store, HashRefreshToken(s), now)
                        ELSE store
    /\ out' = [NoOut EXCEPT !.handler = "Logout", !.arg = s,
                            !.resp = RespNoContent,
                            !.revoked = (store' # store)]
    /\ UNCHANGED <<now, users, fresh, req, parent, owner, killed>>
    /\ UNCHANGED notAuthVars

(***************************************************************************)
(* Repository operations no handler calls, and the environment             *)
(***************************************************************************)
\* tokenRepo.RevokeAllForUser(u, now).
RevokeAllForUser(u) ==
    /\ Quiet
    /\ store' = RepoRevokeAllForUser(store, u, now)
    /\ UNCHANGED <<now, users, fresh, req, out, parent, owner, killed>>
    /\ UNCHANGED notAuthVars

\* The same call, with the secrets of the rows of u that were active when it
\* was made recorded in the history.
RevokeAllSessions(u) ==
    /\ Quiet
    /\ store' = RepoRevokeAllForUser(store, u, now)
    /\ killed' = killed \cup {s \in 1..fresh :
                      \E t \in RepoGetByTokenHash(store, HashRefreshToken(s)) :
                         t.UserID = u /\ IsValid(t, now)}
    /\ UNCHANGED <<now, users, fresh, req, out, parent, owner>>
    /\ UNCHANGED notAuthVars

\* tokenRepo.DeleteExpired().
DeleteExpired ==
    /\ Quiet
    /\ store' = RepoDeleteExpired(store, now)
    /\ UNCHANGED <<now, users, fresh, req, out, parent, owner, killed>>
    /\ UNCHANGED notAuthVars

\* The process stops (the shutdown deadline passes, or it is killed) while
\* request q is between two steps: q takes no further step, writes nothing.
Crash(q) ==
    /\ Quiet
    /\ q \in BagToSet(req)
    /\ out' = [Finished(q) EXCEPT !.handler = "Crash"]
    /\ req' = Moved(q, {})
    /\ UNCHANGED <<now, users, store, fresh, parent, owner, killed>>
    /\ UNCHANGED notAuthVars

\* The requests a step can be taken for.
Requests == BagToSet(req)

Next ==
    \/ Tick
    \/ Sent
    \/ \E u \in Users, e, ok \in BOOLEAN : Register(u, e, ok)
    \/ \E u \in Users, e, ok \in BOOLEAN : Login(u, e, ok)
    \/ \E s \in Secrets, ok, uok \in BOOLEAN : RefreshLookup(s, ok, uok)
    \/ \E q \in Requests, ok \in BOOLEAN : RefreshRevoke(q, ok)
    \/ \E q \in Requests, e, ok \in BOOLEAN : RefreshCreate(q, e, ok)
    \/ \E s \in Secrets, ok \in BOOLEAN : Logout(s, ok)
    \/ \E u \in Users : RevokeAllForUser(u)
    \/ DeleteExpired
    \/ \E q \in Requests : Crash(q)

Spec == Init /\ [][Next]_vars

\* The same handlers when no persistence call fails, the entropy source
\* works and the process keeps running.
NextNoFault ==
    \/ Tick
    \/ Sent
    \/ \E u \in Users : Register(u, TRUE, TRUE)
    \/ \E u \in Users : Login(u, TRUE, TRUE)
    \/ \E s \in Secrets : RefreshLookup(s, TRUE, TRUE)
    \/ \E q \in Requests : RefreshRevoke(q, TRUE)
    \/ \E q \in Requests : RefreshCreate(q, TRUE, TRUE)
    \/ \E s \in Secrets : Logout(s, TRUE)
    \/ \E u \in Users : RevokeAllForUser(u)
    \/ DeleteExpired

SpecNoFault == Init /\ [][NextNoFault]_vars

\* The same handlers with their faults, when a client sends a Refresh request
\* only after the previous one has ended.
NextSeq ==
    \/ Tick
    \/ Sent
    \/ \E u \in Users, e, ok \in BOOLEAN : Register(u, e, ok)
    \/ \E u \in Users, e, ok \in BOOLEAN : Login(u, e, ok)
    \/ \E s \in Secrets, ok, uok \in BOOLEAN :
          req = EmptyBag /\ RefreshLookup(s, ok, uok)
    \/ \E q \in Requests, ok \in BOOLEAN : RefreshRevoke(q, ok)
    \/ \E q \in Requests, e, ok \in BOOLEAN : RefreshCreate(q, e, ok)
    \/ \E s \in Secrets, ok \in BOOLEAN : Logout(s, ok)
    \/ \E u \in Users : RevokeAllForUser(u)
    \/ DeleteExpired
    \/ \E q \in Requests : Crash(q)

SpecSeq == Init /\ [][NextSeq]_vars

(***************************************************************************)
(* internal/http/middleware: RateLimiter                                   *)
(*                                                                         *)
(* An address or header value is the sequence of the addresses written in  *)
(* it: <<>> is the empty string (header absent), <<a>> is "a", <<a, b>> is *)
(* "a, b".  Token counts are kept in ticks: TickPerToken per token.        *)
(***************************************************************************)
burstMultiplier == 2

IPs == 1..NumIPs
\* r.RemoteAddr, and the values of X-Real-IP.
Addrs == [1..1 -> IPs]
\* The values of X-Forwarded-For.
Chains == UNION {[1..n -> IPs] : n \in 1..MaxChain}

\* RateLimit: the key of the request.
ResolveIP(remoteAddr, realIP, forwarded) ==
    IF realIP # <<>> THEN realIP
    ELSE IF forwarded # <<>> THEN forwarded
    ELSE remoteAddr

\* The identity of the request by the precedence the handler's comments
\* give: X-Real-IP, else the first address of X-Forwarded-For ("Take first
\* IP"), else the connection's address.
FirstIP(remoteAddr, realIP, forwarded) ==
    IF realIP # <<>> THEN realIP
    ELSE IF forwarded # <<>> THEN <<Head(forwarded)>>
    ELSE remoteAddr

\* NewRateLimiter: burst, in tokens and in ticks.
Burst == rate * burstMultiplier
Full == Burst * TickPerToken

\* A limiter made with burst = rate, the multiplier left out: what the burst
\* of C12 rules out.
NewLimiterNoBurst(t) ==
    [tokens |-> rate * TickPerToken, last |-> t,
     young |-> TRUE, calls |-> 0, allowed |-> 0,
     denied |-> FALSE, waited |-> 0]

\* rate.NewLimiter(rate.Limit(rl.rate), rl.burst) at time t: a full bucket.
\* The other fields are history.  young tells that no time has passed since
\* the limiter was made; calls and allowed count its Allow calls, and the
\* allowed ones, since time last passed.  denied tells that its last Allow
\* call was denied, and waited counts the ticks since then (up to
\* TickPerToken).
NewLimiter(t) ==
    [tokens |-> Full, last |-> t,
     young |-> TRUE, calls |-> 0, allowed |-> 0,
     denied |-> FALSE, waited |-> 0]

\* A limiter that nothing refers to any more.
Garbage ==
    [tokens |-> 0, last |-> 0,
     young |-> FALSE, calls |-> 0, allowed |-> 0,
     denied |-> FALSE, waited |-> 0]

\* A refill without the cap at the burst: what C26 rules out.
AvailableUncapped(lim, t) == lim.tokens + (t - lim.last)

\* rate.Limiter.advance: the tokens at time t.
Available(lim, t) ==
    IF lim.tokens + (t - lim.last) > Full THEN Full
    ELSE lim.tokens + (t - lim.last)

\* rate.Limiter.Allow() at time t: whether a token was taken, and the limiter
\* after the call (left as it was when the call is denied).
LimiterAllow(lim, t) ==
    IF Available(lim, t) >= TickPerToken
       THEN [ok |-> TRUE,
             lim |-> [lim EXCEPT !.tokens = Available(lim, t) - TickPerToken,
                                 !.last = t]]
       ELSE [ok |-> FALSE, lim |-> lim]

\* The history of limiter lim after an Allow call that returned ok.
Noted(lim, ok) ==
    [lim EXCEPT
       !.calls = IF lim.calls <= Burst THEN lim.calls + 1 ELSE lim.calls,
       !.allowed = IF ok THEN lim.allowed + 1 ELSE lim.allowed,
       !.denied = ~ok,
       !.waited = 0]

\* The history of limiter lim after a tick of the clock.
Aged(lim) ==
    [lim EXCEPT
       !.young = FALSE, !.calls = 0, !.allowed = 0,
       !.waited = IF lim.denied /\ lim.waited < TickPerToken
                     THEN lim.waited + 1 ELSE lim.waited]

\* The limiters after the garbage collector has freed those that neither
\* the map vis nor a request of cs refers to.
Collected(lims, vis, cs) ==
    [i \in DOMAIN lims |->
       IF (\E k \in DOMAIN vis : vis[k] = i)
             \/ (\E q \in BagToSet(cs) : q.limiter = i)
          THEN lims[i] ELSE Garbage]

\* getVisitor that hands out a new limiter without putting it in the map:
\* what C16 rules out.
GetVisitorNoStore(vis, lims, ip, t) ==
    IF ip \in DOMAIN vis
       THEN [visitors |-> vis, limiters |-> lims, limiter |-> vis[ip]]
       ELSE [visitors |-> vis,
             limiters |-> Append(lims, NewLimiter(t)),
             limiter |-> Len(lims) + 1]

\* getVisitor that gives a new key the limiter of a key already in the map:
\* what C13 rules out.
GetVisitorShared(vis, lims, ip, t) ==
    IF ip \in DOMAIN vis
       THEN [visitors |-> vis, limiters |-> lims, limiter |-> vis[ip]]
       ELSE IF DOMAIN vis # {}
       THEN [visitors |-> [k \in DOMAIN vis \cup {ip} |->
                             IF k = ip THEN vis[CHOOSE o \in DOMAIN vis : TRUE]
                             ELSE vis[k]],
             limiters |-> lims,
             limiter |-> vis[CHOOSE o \in DOMAIN vis : TRUE]]
       ELSE [visitors |-> [k \in {ip} |-> Len(lims) + 1],
             limiters |-> Append(lims, NewLimiter(t)),
             limiter |-> Len(lims) + 1]

\* getVisitor(ip) at time t, under rl.mu: the map and the limiters after the
\* call, and the limiter returned.
GetVisitor(vis, lims, ip, t) ==
    IF ip \in DOMAIN vis
       THEN [visitors |-> vis, limiters |-> lims, limiter |-> vis[ip]]
       ELSE [visitors |-> [k \in DOMAIN vis \cup {ip} |->
                             IF k = ip THEN Len(lims) + 1 ELSE vis[k]],
             limiters |-> Append(lims, NewLimiter(t)),
             limiter |-> Len(lims) + 1]

\* A cleanup that evicts key by key, only the keys whose limiter is full:
\* what C15 rules out.
SweptMapIdleOnly(vis) ==
    [k \in {o \in DOMAIN vis : limiters[vis[o]].tokens = Full} |-> vis[k]]

\* cleanupVisitors, one turn of its loop: the map after it.
SweptMap(vis) == EmptyMap

\* RateLimit without the return after http.Error: what C17 rules out.
GateNoReturn(allowed) ==
    IF ~allowed THEN [status |-> 429, handled |-> TRUE]
    ELSE [status |-> 200, handled |-> TRUE]

\* What RateLimit does with the answer of limiter.Allow(): http.Error(429)
\* and return, or next.ServeHTTP.
Gate(allowed) ==
    IF ~allowed THEN [status |-> 429, handled |-> FALSE]
    ELSE [status |-> 200, handled |-> TRUE]

\* NewRateLimiter(r) has been called; no request yet.
InitLimiter ==
    /\ InitAuth /\ IdleToken /\ IdlePassword /\ IdleLock
    /\ clock = 0
    /\ rate \in 1..MaxRate
    /\ visitors = EmptyMap
    /\ limiters = <<>>
    /\ conns = EmptyBag
    /\ served = NoServed
    /\ sweeps = 0
    /\ seen = {}

\* NewRateLimiter(1) has been called, as in TestRateLimit_ExceedLimit; no
\* request yet.
InitRegistry ==
    /\ InitAuth /\ IdleToken /\ IdlePassword /\ IdleLock
    /\ clock = 0
    /\ rate = 1
    /\ visitors = EmptyMap
    /\ limiters = <<>>
    /\ conns = EmptyBag
    /\ served = NoServed
    /\ sweeps = 0
    /\ seen = {}

\* A request enters RateLimit: its key is resolved and getVisitor returns
\* the limiter for it.
Arrive(remoteAddr, realIP, forwarded) ==
    /\ served = NoServed
    /\ BagCardinality(conns) < MaxConns
    /\ LET ip == ResolveIP(remoteAddr, realIP, forwarded)
           g == GetVisitor(visitors, limiters, ip, clock)
       IN  /\ ip \notin DOMAIN visitors => Len(limiters) < MaxLimiters
           /\ visitors' = g.visitors
           /\ limiters' = g.limiters
           /\ seen' = seen \cup {ip}
           /\ conns' = conns (+) SetToBag({
                  [key |-> ip, limiter |-> g.limiter, gen |-> sweeps]})
    /\ UNCHANGED <<clock, rate, served, sweeps>>
    /\ UNCHANGED notLimiterVars

\* limiter.Allow() for request q, then 429 or the next handler.
Allow(q) ==
    /\ served = NoServed
    /\ q \in BagToSet(conns)
    /\ conns' = conns (-) SetToBag({q})
    /\ LET a == LimiterAllow(limiters[q.limiter], clock)
       IN  /\ limiters' = Collected(
                  [limiters EXCEPT ![q.limiter] = Noted(a.lim, a.ok)],
                  visitors, conns')
           /\ served' = [key |-> q.key, status |-> Gate(a.ok).status,
                         handled |-> Gate(a.ok).handled, ok |-> a.ok,
                         young |-> limiters[q.limiter].young,
                         nth |-> limiters[q.limiter].calls + 1,
                         denied |-> limiters[q.limiter].denied,
                         waited |-> limiters[q.limiter].waited,
                         peer |-> \E o \in BagToSet(conns') :
                                     o.limiter = q.limiter]
    /\ UNCHANGED <<clock, rate, visitors, sweeps, seen>>
    /\ UNCHANGED notLimiterVars

\* The response of the request has left.
Passed ==
    /\ served # NoServed
    /\ served' = NoServed
    /\ UNCHANGED <<clock, rate, visitors, limiters, conns, sweeps, seen>>
    /\ UNCHANGED notLimiterVars

\* cleanupVisitors: the ticker fires.
CleanupVisitors ==
    /\ served = NoServed
    /\ sweeps < MaxSweeps
    /\ visitors' = SweptMap(visitors)
    /\ limiters' = Collected(limiters, visitors', conns)
    /\ sweeps' = sweeps + 1
    /\ seen' = {}
    /\ UNCHANGED <<clock, rate, conns, served>>
    /\ UNCHANGED notLimiterVars

\* Time passes.
Elapse ==
    /\ served = NoServed
    /\ clock < MaxClock
    /\ clock' = clock + 1
    /\ limiters' = [i \in DOMAIN limiters |-> Aged(limiters[i])]
    /\ UNCHANGED <<rate, visitors, conns, served, sweeps, seen>>
    /\ UNCHANGED notLimiterVars

(***************************************************************************)
(* The limiter that main builds from RATE_LIMIT.                           *)
(***************************************************************************)
\* Values of the environment variable: strings of digits and a letter.
EnvChars == {"0", "1", "x"}
EnvValues == UNION {[1..n -> EnvChars] : n \in 1..MaxEnvLen}

Digit(c) == IF c = "1" THEN 1 ELSE 0

RECURSIVE Decimal(_)
Decimal(value) ==
    IF value = <<>> THEN 0
    ELSE 10 * Decimal(SubSeq(value, 1, Len(value) - 1))
            + Digit(value[Len(value)])

\* strconv.Atoi(value): the number and whether there is an error.
Atoi(value) ==
    IF value # <<>> /\ \A i \in 1..Len(value) : value[i] \in {"0", "1"}
       THEN [i |-> Decimal(value), err |-> FALSE]
       ELSE [i |-> 0, err |-> TRUE]

\* A parseInt that falls back to 1: what C30 rules out.
ParseIntOrOne(value) == IF Atoi(value).err THEN 1 ELSE Atoi(value).i

\* parseInt(value).
ParseInt(value) == IF Atoi(value).err THEN 0 ELSE Atoi(value).i

\* NewRateLimiter(cfg.RateLimit) for a RATE_LIMIT that is not a number, or
\* is the number 0.
InitRateZero ==
    /\ InitAuth /\ IdleToken /\ IdlePassword /\ IdleLock
    /\ clock = 0
    /\ \E value \in EnvValues :
          /\ Atoi(value).err \/ Atoi(value).i = 0
          /\ rate = ParseInt(value)
    /\ visitors = EmptyMap
    /\ limiters = <<>>
    /\ conns = EmptyBag
    /\ served = NoServed
    /\ sweeps = 0
    /\ seen = {}

(***************************************************************************)
(* getVisitor and cleanupVisitors step by step: rl.mu.Lock(), the body,    *)
(* rl.mu.Unlock().                                                         *)
(***************************************************************************)
\* rl.mu.Lock() returns: nobody holds the mutex (no RLock is ever taken).
LockFree == mu.holder = ""

\* A request calls getVisitor(ip).
CallGetVisitor(ip) ==
    /\ BagCardinality(callers) < MaxConns
    /\ callers' = callers (+) SetToBag({[key |-> ip, pc |-> "Lock"]})
    /\ UNCHANGED mu
    /\ UNCHANGED limiterVars
    /\ UNCHANGED notRegistryVars

\* rl.mu.Lock() in getVisitor, for caller c.
MuLock(c) ==
    /\ c \in BagToSet(callers)
    /\ c.pc = "Lock"
    /\ LockFree
    /\ c.key \notin DOMAIN visitors => Len(limiters) < MaxLimiters
    /\ mu' = [holder |-> "getVisitor", key |-> c.key]
    /\ callers' = (callers (-) SetToBag({c}))
                      (+) SetToBag({[c EXCEPT !.pc = "locked"]})
    /\ UNCHANGED limiterVars
    /\ UNCHANGED notRegistryVars

\* The body of getVisitor for caller c, and the deferred rl.mu.Unlock().
GetVisitorReturn(c) ==
    /\ c \in BagToSet(callers)
    /\ c.pc = "locked"
    /\ LET g == GetVisitor(visitors, limiters, c.key, clock)
       IN  /\ visitors' = g.visitors
           /\ limiters' = g.limiters
    /\ seen' = seen \cup {c.key}
    /\ mu' = NoHolder
    /\ callers' = callers (-) SetToBag({c})
    /\ UNCHANGED <<clock, rate, conns, served, sweeps>>
    /\ UNCHANGED notRegistryVars

\* cleanupVisitors: the ticker fires, rl.mu.Lock().
CleanupLock ==
    /\ sweeps < MaxSweeps
    /\ LockFree
    /\ mu' = [holder |-> "cleanupVisitors", key |-> <<>>]
    /\ UNCHANGED callers
    /\ UNCHANGED limiterVars
    /\ UNCHANGED notRegistryVars

\* cleanupVisitors: the map is replaced, rl.mu.Unlock().
CleanupUnlock ==
    /\ mu.holder = "cleanupVisitors"
    /\ visitors' = SweptMap(visitors)
    /\ limiters' = Collected(limiters, visitors', conns)
    /\ sweeps' = sweeps + 1
    /\ seen' = {}
    /\ mu' = NoHolder
    /\ UNCHANGED callers
    /\ UNCHANGED <<clock, rate, conns, served>>
    /\ UNCHANGED notRegistryVars

NextMutex ==
    \/ \E a \in Addrs : CallGetVisitor(a)
    \/ \E c \in BagToSet(callers) : MuLock(c)
    \/ \E c \in BagToSet(callers) : GetVisitorReturn(c)
    \/ CleanupLock
    \/ CleanupUnlock

SpecMutex == InitRegistry /\ [][NextMutex]_vars

\* Requests that come without proxy headers, to a limiter of any rate: the
\* token arithmetic of the limiters.
NextLimiter ==
    \/ \E a \in Addrs : Arrive(a, <<>>, <<>>)
    \/ \E q \in BagToSet(conns) : Allow(q)
    \/ Passed
    \/ CleanupVisitors
    \/ Elapse

SpecLimiter == InitLimiter /\ [][NextLimiter]_vars

SpecRateZero == InitRateZero /\ [][NextLimiter]_vars

\* Requests with every combination of address and proxy headers, to a
\* limiter of rate 1: the map of visitors.
NextRegistry ==
    \/ \E a \in Addrs, x \in Addrs \cup {<<>>}, f \in Chains \cup {<<>>} :
          Arrive(a, x, f)
    \/ \E q \in BagToSet(conns) : Allow(q)
    \/ Passed
    \/ CleanupVisitors
    \/ Elapse

SpecRegistry == InitRegistry /\ [][NextRegistry]_vars

(***************************************************************************)
(* Access tokens: GenerateAccessToken and ValidateAccessToken.  Time is    *)
(* counted in ticks, SubSec ticks to the second; the dates in a token are  *)
(* whole seconds.                                                          *)
(***************************************************************************)
Keys == 1..NumKeys
Expiries == 1..MaxExpiry

\* The characters of a Go string: a letter, a byte that is not valid UTF-8,
\* and U+FFFD.
Chars == {"a", "xFF", "uFFFD"}
Texts == {<<c>> : c \in Chars}

ValidUTF8(s) == \A i \in 1..Len(s) : s[i] # "xFF"

\* encoding/json writes a string with every invalid byte replaced by U+FFFD.
JSONMarshalString(s) ==
    [i \in 1..Len(s) |-> IF s[i] = "xFF" THEN "uFFFD" ELSE s[i]]

\* A NumericDate that rounds up to the next second: what C18 rules out.
NewNumericDateUp(t) == (t + SubSec - 1) \div SubSec

\* jwt.NewNumericDate(t): t truncated to the second (jwt.TimePrecision).
NewNumericDate(t) == t \div SubSec

HMACMethods == {"HS256", "HS384", "HS512"}
Methods == HMACMethods \cup {"RS256", "none"}

\* The Claims that GenerateAccessToken builds at time t, as written in the
\* token.
NewClaims(userID, email, role, t, expiry) ==
    [user_id |-> JSONMarshalString(userID),
     email |-> JSONMarshalString(email),
     role |-> JSONMarshalString(role),
     exp |-> NewNumericDate(t + expiry),
     iat |-> NewNumericDate(t),
     nbf |-> NewNumericDate(t)]

\* jwt.NewWithClaims(method, claims).SignedString(secret).
SignedString(method, claims, secret, made) ==
    [alg |-> method, key |-> secret, claims |-> claims, made |-> made]

\* A validation that also asks for a valid row in refresh_tokens: what C28
\* rules out.
ValidateWithSession(tok, secret, t) ==
    IF tok.alg \notin HMACMethods
       THEN [err |-> "ErrTokenUnverifiable", claims |-> <<>>, secret |-> secret]
    ELSE IF tok.key # secret
       THEN [err |-> "ErrTokenSignatureInvalid", claims |-> <<>>,
             secret |-> secret]
    ELSE IF ~(t < tok.claims.exp * SubSec)
       THEN [err |-> "ErrTokenExpired", claims |-> <<>>, secret |-> secret]
    ELSE IF \A row \in store : ~IsValid(row, now)
       THEN [err |-> "ErrTokenRevoked", claims |-> <<>>, secret |-> secret]
    ELSE [err |-> "", claims |-> tok.claims, secret |-> secret]

\* ValidateAccessToken(tokenString, secret) at time t: the key function,
\* then the signature, then the dates (exp: now before it; nbf: now not
\* before it).
ValidateAccessToken(tok, secret, t) ==
    IF tok.alg \notin HMACMethods
       THEN [err |-> "ErrTokenUnverifiable", claims |-> <<>>, secret |-> secret]
    ELSE IF tok.key # secret
       THEN [err |-> "ErrTokenSignatureInvalid", claims |-> <<>>,
             secret |-> secret]
    ELSE IF ~(t < tok.claims.exp * SubSec)
       THEN [err |-> "ErrTokenExpired", claims |-> <<>>, secret |-> secret]
    ELSE IF t < tok.claims.nbf * SubSec
       THEN [err |-> "ErrTokenNotValidYet", claims |-> <<>>, secret |-> secret]
    ELSE [err |-> "", claims |-> tok.claims, secret |-> secret]

\* time.Now() moves on.
WallTick ==
    /\ wall < MaxWall
    /\ wall' = wall + 1
    /\ verdict' = NoVerdict
    /\ authed' = NoAuthed
    /\ UNCHANGED jwt
    /\ UNCHANGED notTokenVars

\* GenerateAccessToken(userID, email, role, secret, expiry), the one token a
\* behaviour looks at.
GenerateAccessToken(userID, email, role, secret, expiry) ==
    /\ jwt = NoToken
    /\ jwt' = SignedString("HS256",
                           NewClaims(userID, email, role, wall, expiry),
                           secret,
                           [by |-> "GenerateAccessToken", at |-> wall,
                            expiry |-> expiry, userID |-> userID,
                            email |-> email, role |-> role])
    /\ verdict' = NoVerdict
    /\ authed' = NoAuthed
    /\ UNCHANGED wall
    /\ UNCHANGED notTokenVars

\* A token string of the same claims that was signed elsewhere with another
\* method: an input of ValidateAccessToken.
OtherToken(method, userID, email, role, secret, expiry) ==
    /\ method # "HS256"
    /\ jwt = NoToken
    /\ jwt' = SignedString(method,
                           NewClaims(userID, email, role, wall, expiry),
                           secret,
                           [by |-> "other", at |-> wall,
                            expiry |-> expiry, userID |-> userID,
                            email |-> email, role |-> role])
    /\ verdict' = NoVerdict
    /\ authed' = NoAuthed
    /\ UNCHANGED wall
    /\ UNCHANGED notTokenVars

\* ValidateAccessToken(jwt, secret) is called.
Validate(secret) ==
    /\ jwt # NoToken
    /\ verdict' = ValidateAccessToken(jwt, secret, wall)
    /\ authed' = NoAuthed
    /\ UNCHANGED <<wall, jwt>>
    /\ UNCHANGED notTokenVars

(***************************************************************************)
(* AuthMiddleware.  An Authorization header is a string of the pieces      *)
(* "Bearer", "bearer", " " and "jwt", the last standing for the token      *)
(* string at hand.                                                         *)
(***************************************************************************)
HeaderPieces == {"Bearer", "bearer", " ", "jwt"}
Headers == UNION {[1..n -> HeaderPieces] : n \in 0..MaxHeaderLen}

\* strings.Split(header, " ").
RECURSIVE Split(_)
Split(header) ==
    IF \A i \in 1..Len(header) : header[i] # " " THEN <<header>>
    ELSE LET i == CHOOSE k \in 1..Len(header) :
                     /\ header[k] = " "
                     /\ \A j \in 1..(k - 1) : header[j] # " "
         IN  <<SubSeq(header, 1, i - 1)>>
                 \o Split(SubSeq(header, i + 1, Len(header)))

\* auth.ValidateAccessToken(parts[1], secret): a string that is not the
\* token at hand does not parse.
ValidatePart(part, secret, t) ==
    IF part = <<"jwt">> /\ jwt # NoToken
       THEN ValidateAccessToken(jwt, secret, t)
       ELSE [err |-> "ErrTokenMalformed", claims |-> <<>>, secret |-> secret]

\* What AuthMiddleware does with a request at time t: the three 401 exits,
\* or the context values and next.ServeHTTP.
Authorize(header, secret, t) ==
    LET parts == Split(header)
    IN  IF header = <<>>
           THEN [status |-> 401, handled |-> FALSE, ctx |-> NoCtx]
        ELSE IF Len(parts) # 2 \/ parts[1] # <<"Bearer">>
           THEN [status |-> 401, handled |-> FALSE, ctx |-> NoCtx]
        ELSE IF ValidatePart(parts[2], secret, t).err # ""
           THEN [status |-> 401, handled |-> FALSE, ctx |-> NoCtx]
        ELSE LET claims == ValidatePart(parts[2], secret, t).claims
             IN  [status |-> 200, handled |-> TRUE,
                  ctx |-> [user_id |-> claims.user_id,
                           user_email |-> claims.email,
                           user_role |-> claims.role]]

\* A request with the given Authorization header reaches the middleware,
\* which is configured with secret.
AuthMiddleware(header, secret) ==
    /\ authed = NoAuthed
    /\ LET a == Authorize(header, secret, wall)
       IN  authed' = [header |-> header, secret |-> secret,
                      status |-> a.status, handled |-> a.handled,
                      ctx |-> a.ctx]
    /\ verdict' = NoVerdict
    /\ UNCHANGED <<wall, jwt>>
    /\ UNCHANGED notTokenVars

NextToken ==
    \/ WallTick
    \/ \E u, e, r \in Texts, k \in Keys, x \in Expiries :
          GenerateAccessToken(u, e, r, k, x)
    \/ \E m \in Methods, u \in Texts, k \in Keys, x \in Expiries :
          OtherToken(m, u, <<"a">>, <<"a">>, k, x)
    \/ \E k \in Keys : Validate(k)

SpecToken == Init /\ [][NextToken]_vars

\* Tokens of every method and age, presented to the middleware in every
\* header.
NextAuthMiddleware ==
    \/ WallTick
    \/ \E u \in Texts, k \in Keys, x \in Expiries :
          GenerateAccessToken(u, <<"a">>, <<"a">>, k, x)
    \/ \E m \in Methods, k \in Keys, x \in Expiries :
          OtherToken(m, <<"a">>, <<"a">>, <<"a">>, k, x)
    \/ \E h \in Headers, k \in Keys : AuthMiddleware(h, k)

SpecAuthMiddleware == Init /\ [][NextAuthMiddleware]_vars

(***************************************************************************)
(* Passwords: HashPassword and VerifyPassword applied to each other.       *)
(***************************************************************************)
\* HashPassword(password), rand.Read giving salt.
Hash(password, salt) ==
    /\ cred = NoCred
    /\ cred' = [password |-> password,
                encoded |-> HashPassword(password, salt),
                hashed |-> TRUE]
    /\ verified' = NoVerified
    /\ UNCHANGED notPasswordVars

\* A stored credential that HashPassword did not write.
Stored(encoded) ==
    /\ cred = NoCred
    /\ cred' = [password |-> 0, encoded |-> encoded, hashed |-> FALSE]
    /\ verified' = NoVerified
    /\ UNCHANGED notPasswordVars

\* VerifyPassword(password, cred.encoded).
Verify(password) ==
    /\ cred # NoCred
    /\ LET v == VerifyPassword(password, cred.encoded)
       IN  verified' = [password |-> password, valid |-> v.valid,
                        err |-> v.err, done |-> TRUE,
                        prior |-> verified.done /\ verified.valid]
    /\ UNCHANGED cred
    /\ UNCHANGED notPasswordVars

NextPassword ==
    \/ \E p \in Passwords, salt \in Salts : Hash(p, salt)
    \/ \E c \in EncodedStrings : Stored(c)
    \/ \E p \in Passwords : Verify(p)

SpecPassword == Init /\ [][NextPassword]_vars

\* One access token, made at any time by GenerateAccessToken, while the
\* handlers and the repository work on the refresh_tokens table (no call
\* fails, one Refresh request at a time).
NextAccess ==
    \/ Tick
    \/ Sent
    \/ WallTick
    \/ \E k \in Keys, x \in Expiries :
          GenerateAccessToken(<<"a">>, <<"a">>, <<"a">>, k, x)
    \/ \E u \in Users : Register(u, TRUE, TRUE)
    \/ \E s \in Secrets : req = EmptyBag /\ RefreshLookup(s, TRUE, TRUE)
    \/ \E q \in Requests : RefreshRevoke(q, TRUE)
    \/ \E q \in Requests : RefreshCreate(q, TRUE, TRUE)
    \/ \E s \in Secrets : Logout(s, TRUE)
    \/ \E u \in Users : RevokeAllForUser(u)
    \/ DeleteExpired

SpecAccess == Init /\ [][NextAccess]_vars

\* Register and Login with every way Login ends; the password_hash read for
\* the user is what HashPassword wrote at Register, or any other string.
NextLogin ==
    \/ Tick
    \/ Sent
    \/ \E u \in Users, e, ok \in BOOLEAN : Register(u, e, ok)
    \/ \E u \in Users, p \in Passwords, c \in EncodedStrings, e, ok \in BOOLEAN :
          LoginVerified(u, p, c, e, ok)
    \/ \E u \in Users, p \in Passwords, c \in EncodedStrings, ok \in BOOLEAN :
          LoginRejected(u, p, c, ok)

SpecLogin == Init /\ [][NextLogin]_vars

\* Register, Login and concurrent Refresh requests with failing statements,
\* RevokeAllForUser with its history recorded, and DeleteExpired.
NextRevokeAll ==
    \/ Tick
    \/ Sent
    \/ \E u \in Users, e, ok \in BOOLEAN : Register(u, e, ok)
    \/ \E u \in Users, e, ok \in BOOLEAN : Login(u, e, ok)
    \/ \E s \in Secrets, ok, uok \in BOOLEAN : RefreshLookup(s, ok, uok)
    \/ \E q \in Requests, ok \in BOOLEAN : RefreshRevoke(q, ok)
    \/ \E q \in Requests, e, ok \in BOOLEAN : RefreshCreate(q, e, ok)
    \/ \E u \in Users : RevokeAllSessions(u)
    \/ DeleteExpired

SpecRevokeAll == Init /\ [][NextRevokeAll]_vars

(***************************************************************************)
(* Definitions the properties are stated with                              *)
(***************************************************************************)
\* The secret a row was stored for.
SecretOf(t) == CHOOSE s \in Secrets : HashRefreshToken(s) = t.TokenHash

\* The secret Login/Register generated at the root of the rotation chain of s.
RECURSIVE Root(_)
Root(s) == IF parent[s] = 0 THEN s ELSE Root(parent[s])

\* The rows of the table that IsValid accepts now.
Active == {t \in store : IsValid(t, now)}

\* The row stored for secret s, if any.
RowsOf(s) == RepoGetByTokenHash(store, HashRefreshToken(s))

RefreshOk == out.handler = "Refresh" /\ out.resp.status = 200

(***************************************************************************)
(* C1.  A secret is rotated at most once: a Refresh request is answered    *)
(* 200 only for a secret no Refresh request was answered 200 for before    *)
(* (the first Rotate(s) succeeds, every later Rotate(s) fails).            *)
(***************************************************************************)
C1_RotateOnce == RefreshOk => ~out.again

(***************************************************************************)
(* C2.  Each rotation lineage (a row created by Login/Register and the     *)
(* rows created from it by successive Refresh requests) holds at most one  *)
(* active row.                                                             *)
(***************************************************************************)
C2_OneActivePerLineage ==
    \A t1, t2 \in Active :
        Root(SecretOf(t1)) = Root(SecretOf(t2)) => t1 = t2

(***************************************************************************)
(* C3.  Of two Refresh requests that present the same secret and run       *)
(* concurrently, at most one is answered 200.  Checked where no call       *)
(* fails: there a second 200 for a secret can only come from a request     *)
(* that read the row before the first one revoked it.                      *)
(***************************************************************************)
C3_OneWinner == ~(RefreshOk /\ Rotated(out.arg) /\ out.again)

(***************************************************************************)
(* C4.  Revoke-old and create-new are one atomic unit: when a Refresh      *)
(* request has ended (answered, or stopped with the process), it has not   *)
(* revoked the presented row without storing the successor, and it has not *)
(* stored the successor while the presented row is still valid.            *)
(***************************************************************************)
C4_AtomicRotate ==
    out.handler \in {"Refresh", "Crash"} =>
        /\ ~(out.revoked /\ ~out.created)
        /\ ~(out.created /\ \E t \in RowsOf(out.arg) : IsValid(t, now))

(***************************************************************************)
(* C5.  No failure of a refresh-token persistence call is swallowed: the   *)
(* row of every refresh secret returned in a response is in the table      *)
(* when the response is written.                                           *)
(***************************************************************************)
C5_ReturnedSecretStored ==
    out.resp.refresh_token # 0 => RowsOf(out.resp.refresh_token) # {}

(***************************************************************************)
(* C6.  A Refresh request that is cancelled or aborts on an error before   *)
(* revoke+create has completed leaves the table as it was: it has neither  *)
(* revoked the presented row nor stored a new one.                         *)
(***************************************************************************)
C6_AbortLeavesStore ==
    (out.handler = "Crash" \/ (out.handler = "Refresh" /\ out.resp.status = 500))
        => ~out.revoked /\ ~out.created

(***************************************************************************)
(* C7.  RevokeAllForUser(u) leaves every row of u revoked, changes no row  *)
(* of another user and, called when every row of u is revoked already,     *)
(* changes nothing; and a Refresh request that arrives after the call      *)
(* with a secret whose row was active at the call is never admitted: it    *)
(* is rejected with 401, as revoked while the row is in the table and as   *)
(* not found once DeleteExpired has removed the row.                       *)
(***************************************************************************)
RowsOfUser(rows, u) == {t \in rows : t.UserID = u}

C7_RevokeAll ==
    [][ /\ \A u \in Users :
             RevokeAllSessions(u) =>
                /\ \A t \in RowsOfUser(store', u) : IsRevoked(t)
                /\ \A v \in Users \ {u} :
                      RowsOfUser(store', v) = RowsOfUser(store, v)
                /\ (\A t \in RowsOfUser(store, u) : IsRevoked(t))
                      => store' = store
        /\ \A q \in BagToSet(req') :
             (q.pc = "refresh_revoke" /\ CopiesIn(q, req') > CopiesIn(q, req))
                => q.arg \notin killed
        /\ (out = NoOut /\ out'.handler = "Refresh" /\ req' = req
               /\ out'.arg \in killed)
             => /\ out'.resp.status = 401
                /\ out'.cause \in {"Revoked", "NotFound", "InternalError"}
                /\ (out'.cause = "NotFound") => RowsOf(out'.arg) = {}
      ]_vars

\* C7 as the specification words it: every such request fails as Revoked
\* (a failure of the lookup itself set aside).
C7_FailsRevoked ==
    (out.handler = "Refresh" /\ out.arg \in killed
        /\ out.cause \notin {"", "InternalError"})
        => out.cause = "Revoked"

\* A Refresh request was rejected as revoked for a secret that was never
\* rotated and whose row RevokeAllForUser revoked.
C7_Witness ==
    /\ out.handler = "Refresh"
    /\ out.cause = "Revoked"
    /\ out.arg \in killed
    /\ ~Rotated(out.arg)

(***************************************************************************)
(* C8.  Revoked and expired are terminal: a row of the table that IsValid  *)
(* rejects is rejected after every step that keeps it in the table.        *)
(***************************************************************************)
C8_Terminal ==
    [][ \A t \in store : ~IsValid(t, now) =>
           \A t2 \in store' : t2.ID = t.ID => ~IsValid(t2, now') ]_vars

\* Logout rewrote a row that was revoked and expired already.
C8_Witness ==
    /\ out.handler = "Logout"
    /\ out.revoked
    /\ \E t \in RowsOf(out.arg) : IsExpired(t, now) /\ t.RevokedAt > t.CreatedAt

(***************************************************************************)
(* C9.  The table holds hashes only: the TokenHash of every row is the     *)
(* hash of a generated secret and is no secret itself; and a response      *)
(* carries a plaintext secret only in the step that generated it, so each  *)
(* secret is returned once.                                                *)
(***************************************************************************)
C9_HashOnly ==
    [][ /\ \A t \in store' :
             /\ t.TokenHash \notin Secrets
             /\ \E s \in 1..fresh' : t.TokenHash = HashRefreshToken(s)
        /\ (out' # out /\ out'.resp.refresh_token # 0)
             => /\ fresh' = fresh + 1
                /\ out'.resp.refresh_token = fresh'
                /\ out'.resp.status \in {200, 201}
      ]_vars

\* A Refresh request was answered with a new secret whose row is stored.
C9_Witness ==
    /\ RefreshOk
    /\ \E t \in store : t.TokenHash = HashRefreshToken(out.resp.refresh_token)

(***************************************************************************)
(* C10.  A Refresh request rejected because the secret is unknown, revoked *)
(* or expired gets one and the same response: 401, code invalid_token and  *)
(* the same message.                                                       *)
(***************************************************************************)
C10_SameRejection ==
    (out.handler = "Refresh" /\ out.cause \in {"NotFound", "Revoked", "Expired"})
        => out.resp = [status |-> 401, code |-> "invalid_token",
                       message |-> "Invalid or expired refresh token",
                       refresh_token |-> 0]

\* A Refresh request was rejected for an expired row that is not revoked.
C10_Witness ==
    /\ out.handler = "Refresh"
    /\ out.cause = "Expired"
    /\ \E t \in RowsOf(out.arg) : ~IsRevoked(t)

(***************************************************************************)
(* C11.  Login answers an email that no user has, a wrong password and a   *)
(* stored credential that does not decode with one and the same response   *)
(* (401, invalid_credentials, the same message), and such a request        *)
(* issues no token and stores no row.                                      *)
(***************************************************************************)
C11_LoginAntiEnumeration ==
    [][ (out' # out /\ out'.handler = "Login"
            /\ out'.cause \in {"NoUser", "WrongPassword", "BadCredential"})
        => /\ out'.resp = [status |-> 401, code |-> "invalid_credentials",
                           message |-> "Invalid email or password",
                           refresh_token |-> 0]
           /\ store' = store
           /\ fresh' = fresh
      ]_vars

\* Login was rejected for an email that no user has, after a user has
\* logged in.
C11_Witness ==
    /\ out.handler = "Login"
    /\ out.cause = "NoUser"
    /\ store # {}

(***************************************************************************)
(* C12.  A limiter of rate r allows the first 2r requests made to a new    *)
(* bucket back to back, denies the next one made at the same instant with  *)
(* 429, and allows the next request to a bucket whose last request was     *)
(* denied once 1/r seconds (TickPerToken ticks) have passed since.         *)
(***************************************************************************)
C12_BurstThenRecover ==
    served # NoServed =>
        /\ (served.young /\ served.nth <= Burst) => served.ok
        /\ (served.young /\ served.nth > Burst)
              => (~served.ok /\ served.status = 429)
        /\ (served.denied /\ served.waited >= TickPerToken) => served.ok

\* A request was allowed by a bucket that had denied the request before it
\* and then been left alone for 1/r seconds.
C12_Witness ==
    /\ served.ok
    /\ served.denied
    /\ served.waited >= TickPerToken

(***************************************************************************)
(* C13.  No step taken for a request of one key changes what the map       *)
(* holds for another key, the bucket of another key, or what that bucket   *)
(* would answer.                                                           *)
(***************************************************************************)
\* The step is taken for a request of key k: the request enters the
\* middleware (getVisitor) or gets its answer (Allow).
ActsFor(k) ==
    \/ served = NoServed /\ served' # NoServed /\ served'.key = k
    \/ \E q \in BagToSet(conns') :
          q.key = k /\ CopiesIn(q, conns') > CopiesIn(q, conns)

\* The step leaves key k with its bucket, the bucket as it was.
Kept(k) ==
    /\ k \in DOMAIN visitors'
    /\ visitors'[k] = visitors[k]
    /\ limiters'[visitors'[k]] = limiters[visitors[k]]
    /\ LimiterAllow(limiters'[visitors'[k]], clock').ok
          = LimiterAllow(limiters[visitors[k]], clock).ok

C13_BucketsApart ==
    [][ (clock' = clock /\ sweeps' = sweeps) =>
           \A k \in DOMAIN visitors : ActsFor(k) \/ Kept(k)
      ]_vars

\* A request of one key was denied while the bucket of another key is full.
C13_Witness ==
    /\ served.status = 429
    /\ \E k \in DOMAIN visitors \ {served.key} :
          limiters[visitors[k]].tokens = Full

(***************************************************************************)
(* C14.  The key of a request is its X-Real-IP, else the first address of  *)
(* its X-Forwarded-For, else its connection address: the request that      *)
(* enters the middleware is given the limiter of that key.                 *)
(***************************************************************************)
C14_FirstForwarded ==
    [][ \A a \in Addrs, x \in Addrs \cup {<<>>}, f \in Chains \cup {<<>>} :
          Arrive(a, x, f) =>
             \E q \in BagToSet(conns') :
                /\ CopiesIn(q, conns') > CopiesIn(q, conns)
                /\ q.key = FirstIP(a, x, f)
      ]_vars

(***************************************************************************)
(* C15.  A turn of the cleanup loop leaves the map empty; the map never    *)
(* holds more keys than were looked up since; and the first request of a   *)
(* key after it is given a limiter made for it, full.                      *)
(***************************************************************************)
C15_SweepAll ==
    [][ /\ CleanupVisitors => visitors' = EmptyMap
        /\ Cardinality(DOMAIN visitors') <= Cardinality(seen')
        /\ \A a \in Addrs, x \in Addrs \cup {<<>>}, f \in Chains \cup {<<>>} :
             (Arrive(a, x, f) /\ ResolveIP(a, x, f) \notin seen) =>
                /\ Len(limiters') = Len(limiters) + 1
                /\ visitors'[ResolveIP(a, x, f)] = Len(limiters')
                /\ limiters'[Len(limiters')].tokens = Full
                /\ limiters'[Len(limiters')].young
      ]_vars

\* After a cleanup, a request holds a full limiter made for its key while a
\* request of the same key from before the cleanup holds the used one.
C15_Witness ==
    /\ sweeps > 0
    /\ \E q, o \in BagToSet(conns) :
          /\ q.key = o.key
          /\ q.gen = sweeps /\ o.gen < sweeps
          /\ q.limiter # o.limiter
          /\ limiters[q.limiter].tokens = Full
          /\ limiters[o.limiter].tokens < Full

(***************************************************************************)
(* C16.  Requests of one key that run concurrently use one bucket (the one *)
(* the map holds for the key, made once), and as long as no time has       *)
(* passed since a bucket was made, of the N requests it was asked exactly  *)
(* min(N, 2r) were allowed and each took one token: no update is lost.     *)
(***************************************************************************)
C16_AllowAtomic ==
    /\ \A q \in BagToSet(conns) :
          q.gen = sweeps =>
             q.key \in DOMAIN visitors /\ visitors[q.key] = q.limiter
    /\ \A q, o \in BagToSet(conns) :
          (q.key = o.key /\ q.gen = o.gen) => q.limiter = o.limiter
    /\ \A i \in DOMAIN limiters :
          limiters[i].young =>
             /\ limiters[i].allowed
                   = IF limiters[i].calls < Burst THEN limiters[i].calls
                     ELSE Burst
             /\ limiters[i].tokens = Full - TickPerToken * limiters[i].allowed

\* The last token of a new bucket was taken by one of two requests that
\* held the bucket at the same time.
C16_Witness ==
    /\ served.ok
    /\ served.peer
    /\ served.young
    /\ served.nth = Burst

(***************************************************************************)
(* C17.  The next handler is called exactly for the requests that Allow    *)
(* let through; a request that Allow denied is answered 429 and the next   *)
(* handler is not called for it.                                           *)
(***************************************************************************)
C17_ThrottledTerminal ==
    served # NoServed =>
        /\ served.handled <=> served.ok
        /\ ~served.ok => served.status = 429
        /\ served.status = 429 => ~served.handled

\* A request was answered 429.
C17_Witness ==
    /\ served.status = 429
    /\ ~served.handled
    /\ ~served.ok

(***************************************************************************)
(* C18.  A token made by GenerateAccessToken at time t with a positive     *)
(* expiry, validated with the secret it was made with: before the second   *)
(* in which t + expiry lies it is accepted with the user id, email and     *)
(* role it was made with (strings of valid UTF-8); from the start of that  *)
(* second on it fails as expired.  Validated with another secret it fails  *)
(* with an invalid signature.                                              *)
(***************************************************************************)
IssuedChecked ==
    /\ jwt # NoToken
    /\ jwt.made.by = "GenerateAccessToken"
    /\ verdict # NoVerdict

C18_RoundTrip ==
    IssuedChecked =>
        LET made == jwt.made
            exp == ((made.at + made.expiry) \div SubSec) * SubSec
        IN  /\ verdict.secret # jwt.key
                  => verdict.err = "ErrTokenSignatureInvalid"
            /\ (verdict.secret = jwt.key /\ wall < exp) =>
                  /\ verdict.err = ""
                  /\ ValidUTF8(made.userID)
                        => verdict.claims.user_id = made.userID
                  /\ ValidUTF8(made.email)
                        => verdict.claims.email = made.email
                  /\ ValidUTF8(made.role)
                        => verdict.claims.role = made.role
            /\ (verdict.secret = jwt.key /\ wall >= exp)
                  => verdict.err = "ErrTokenExpired"

\* The statement as the specification has it: accepted at any time before
\* t + expiry, with exactly the strings given.
C18_UntilTtl ==
    IssuedChecked =>
        LET made == jwt.made
        IN  /\ verdict.secret # jwt.key
                  => verdict.err = "ErrTokenSignatureInvalid"
            /\ (verdict.secret = jwt.key /\ wall < made.at + made.expiry) =>
                  /\ verdict.err = ""
                  /\ verdict.claims.user_id = made.userID
                  /\ verdict.claims.email = made.email
                  /\ verdict.claims.role = made.role
            /\ (verdict.secret = jwt.key /\ wall >= made.at + made.expiry)
                  => verdict.err = "ErrTokenExpired"

\* A token made in the middle of a second was accepted some time later.
C18_Witness ==
    /\ IssuedChecked
    /\ verdict.err = ""
    /\ verdict.claims.email = jwt.made.email
    /\ jwt.made.at % SubSec # 0
    /\ wall > jwt.made.at

(***************************************************************************)
(* C19.  ValidateAccessToken accepts a token only when its header names    *)
(* HS256, the method GenerateAccessToken signs with.                       *)
(***************************************************************************)
C19_OnlyHS256 ==
    (jwt # NoToken /\ verdict # NoVerdict /\ verdict.err = "")
        => jwt.alg = "HS256"

(***************************************************************************)
(* C20.  On a credential that HashPassword made for password p, with any   *)
(* salt, VerifyPassword returns true for p and false for every other       *)
(* password, and no error.                                                 *)
(***************************************************************************)
C20_VerifyHash ==
    (cred.hashed /\ verified.done) =>
        /\ ~verified.err
        /\ verified.valid <=> (verified.password = cred.password)

\* On one credential the password it was made for was accepted and then
\* another password refused.
C20_Witness ==
    /\ cred.hashed
    /\ verified.done
    /\ verified.prior
    /\ verified.password # cred.password
    /\ ~verified.valid
    /\ ~verified.err

(***************************************************************************)
(* C21.  VerifyPassword returns an error, and neither true nor a plain     *)
(* false, for every encoded string that is not a well-formed credential:   *)
(* one without the separator, or one whose salt or hash segment is not     *)
(* the encoding of a salt of saltLength bytes, of a key of argon2KeyLen     *)
(* bytes (the empty segment included).                                     *)
(***************************************************************************)
WellFormed(encoded) ==
    LET colonIdx == ColonIdx(encoded)
        salt == Base64Decode(SubSeq(encoded, 1, colonIdx - 1))
        hash == Base64Decode(SubSeq(encoded, colonIdx + 1, Len(encoded)))
    IN  /\ colonIdx # 0
        /\ ~salt.err /\ Len(salt.bytes) = SaltLen
        /\ ~hash.err /\ Len(hash.bytes) = Len(Argon2IDKey(0, salt.bytes))

C21_FormatError ==
    (verified.done /\ ~WellFormed(cred.encoded)) =>
        (verified.err /\ ~verified.valid)

(***************************************************************************)
(* C22.  When Logout has answered for secret s, the row whose hash matches *)
(* s is not valid any more (so that every later Refresh with s is          *)
(* rejected), and the step of Logout changed no other row.                 *)
(***************************************************************************)
C22_LogoutRevokes ==
    (out.handler = "Logout" /\ out.resp = RespNoContent) =>
        \A t \in RowsOf(out.arg) : ~IsValid(t, now)

(***************************************************************************)
(* C23.  AuthMiddleware calls the next handler exactly when the header is  *)
(* "Bearer <token>" and the token is valid for the configured secret       *)
(* (signed with it by the method of GenerateAccessToken, not expired);     *)
(* the context then holds the user id, email and role of the token; in     *)
(* every other case the answer is 401 and the next handler is not called.  *)
(***************************************************************************)
BearerToken(header) == header = <<"Bearer", " ", "jwt">>

TokenValidFor(secret) ==
    /\ jwt # NoToken
    /\ jwt.alg = "HS256"
    /\ jwt.key = secret
    /\ wall < jwt.claims.exp * SubSec

C24_SharedLookups ==
    /\ \A c \in BagToSet(callers) :
          (/\ c.pc = "Lock"
           /\ c.key \in DOMAIN visitors
           /\ mu.holder = "getVisitor"
           /\ mu.key \in DOMAIN visitors) => LockFree
    /\ \A c \in BagToSet(callers) :
          c.pc = "locked" =>
             /\ CopiesIn(c, callers) = 1
             /\ mu = [holder |-> "getVisitor", key |-> c.key]
             /\ \A o \in BagToSet(callers) : o.pc = "locked" => o = c

(***************************************************************************)
(* C25.  A Refresh request that is rejected because no row matches, the    *)
(* row is revoked, or the row is expired ends with an outcome of the       *)
(* handler that names that reason: NotFound, Revoked, or Expired.          *)
(***************************************************************************)
\* The outcome the handler has in hand at each of its exits: the error of
\* GetByTokenHash, or the false of IsValid.
Outcome(exit) ==
    IF exit = "GetByTokenHash" THEN "NotFound"
    ELSE IF exit = "IsValid" THEN "NotValid"
    ELSE exit

C25_DistinctOutcomes ==
    (out.handler = "Refresh" /\ out.cause \in {"NotFound", "Revoked", "Expired"})
        => Outcome(out.exit) = out.cause

(***************************************************************************)
(* C26.  The tokens of every bucket lie between 0 and the capacity         *)
(* (burstMultiplier times the rate), also after the refill for the time    *)
(* that has passed; at one instant a bucket allows at most capacity calls, *)
(* however long it was idle before; and a denied call takes no token.      *)
(***************************************************************************)
C26_TokensBounded ==
    [][ /\ \A i \in DOMAIN limiters' :
             /\ 0 <= limiters'[i].tokens
             /\ limiters'[i].tokens <= Full
             /\ Available(limiters'[i], clock') <= Full
             /\ limiters'[i].allowed <= Burst
        /\ \A q \in BagToSet(conns) :
             (served = NoServed /\ served' # NoServed /\ ~served'.ok
                /\ CopiesIn(q, conns') < CopiesIn(q, conns))
                => \/ limiters'[q.limiter] = Garbage
                   \/ /\ limiters'[q.limiter].tokens
                            = limiters[q.limiter].tokens
                      /\ limiters'[q.limiter].last = limiters[q.limiter].last
      ]_vars

\* A bucket that had been idle until it was full again has allowed capacity
\* calls at one instant and denied the next.
C26_Witness ==
    /\ served.status = 429
    /\ ~served.young
    /\ served.nth = Burst + 1
    /\ \E i \in DOMAIN limiters :
          ~limiters[i].young /\ limiters[i].allowed = Burst
             /\ limiters[i].tokens = 0

(***************************************************************************)
(* C30.  A limiter built with rate 0, as it is for a RATE_LIMIT that is    *)
(* not a number, has capacity 0 and allows no request, of any key, at any  *)
(* time, before or after a reset of the map.                               *)
(***************************************************************************)
C30_RateZero ==
    /\ rate = 0
    /\ Burst = 0
    /\ served # NoServed =>
          (~served.ok /\ ~served.handled /\ served.status = 429)

\* A request was denied after time had passed and the map had been reset.
C30_Witness ==
    /\ served.status = 429
    /\ clock > 0
    /\ sweeps > 0
    /\ ~served.young

(***************************************************************************)
(* C27.  DeleteExpired deletes every row whose expiry is in the past and   *)
(* no other: a row within its expiry, revoked or not, stays as it is, so   *)
(* no valid row is ever deleted by it.                                     *)
(***************************************************************************)
C27_CleanupOnlyExpired ==
    [][ DeleteExpired =>
          /\ store' \subseteq store
          /\ \A t \in store :
                /\ IsExpired(t, now) => t \notin store'
                /\ ~IsExpired(t, now) => t \in store'
                /\ IsValid(t, now) => t \in store'
      ]_vars

\* The row of a secret that was issued has been deleted, and a revoked row
\* that is within its expiry is in the table.
C27_Witness ==
    /\ \E s \in 1..fresh : owner[s] \in users /\ RowsOf(s) = {}
    /\ \E t \in store : IsRevoked(t) /\ ~IsExpired(t, now)

(***************************************************************************)
(* C28.  What ValidateAccessToken answers for a token does not depend on   *)
(* the refresh_tokens table: no step of Register, Refresh, Logout,         *)
(* RevokeAllForUser or DeleteExpired changes the answer for any secret,    *)
(* and a token is accepted with its secret until its own expiry whatever   *)
(* the table holds.                                                        *)
(***************************************************************************)
C28_AccessIndependent ==
    [][ /\ (store' # store \/ req' # req \/ out' # out \/ users' # users) =>
             \A k \in Keys :
                ValidateAccessToken(jwt, k, wall)'
                   = ValidateAccessToken(jwt, k, wall)
        /\ (jwt' # NoToken /\ wall' < jwt'.claims.exp * SubSec) =>
             ValidateAccessToken(jwt', jwt'.key, wall').err = ""
      ]_vars

\* A token is still accepted after every row of the table has been revoked.
C28_Witness ==
    /\ jwt # NoToken
    /\ wall > jwt.made.at
    /\ ValidateAccessToken(jwt, jwt.key, wall).err = ""
    /\ store # {}
    /\ \A t \in store : IsRevoked(t)

(***************************************************************************)
(* C29.  A Refresh request that is rejected because no row matches, the    *)
(* row is revoked or expired, or the user of the row does not exist,       *)
(* leaves the refresh_tokens table as it was and returns no token.         *)
(***************************************************************************)
C29_RejectedRefreshNoWrite ==
    [][ (out' # out /\ out'.handler = "Refresh"
            /\ out'.cause \in {"NotFound", "Revoked", "Expired", "NoUser"})
        => /\ store' = store
           /\ fresh' = fresh
           /\ out'.resp.status = 401
           /\ out'.resp.refresh_token = 0
           /\ ~out'.revoked /\ ~out'.created
      ]_vars

\* A request was rejected for its user, and the row it presented is still
\* valid.
C29_Witness ==
    /\ out.handler = "Refresh"
    /\ out.cause = "NoUser"
    /\ \E t \in RowsOf(out.arg) : IsValid(t, now)

====
